---- MODULE Spec2Model ----
(***************************************************************************)
(* Loop/spur detection and excision of track-cleaner.                      *)
(*                                                                         *)
(*   src/src/core/service/track_cutter.py  TrackCutter                     *)
(*   src/src/utils/gpx_utils.py            GpxUtils                        *)
(*   src/src/ui/io.py                      IO                              *)
(*   src/src/main.py                       main                            *)
(*                                                                         *)
(* Geometry.  Points lie on one meridian (longitude 0) with latitudes that *)
(* are whole multiples of one step, so the haversine distance of           *)
(* GpxUtils.distance_between_points is the radius times |dlat|, a whole    *)
(* number of steps.  One step is one metre of arc; latitudes, lengths and   *)
(* thresholds are counted in metres.                                       *)
(* A point whose latitude is None is written with latitude NoneLat; the    *)
(* call radians(None) raises TypeError.                                    *)
(*                                                                         *)
(* Indices i, j and the ranges (i, j) are 0-based as in the code; TLA+     *)
(* sequences are 1-based, so points[k] of the code is points[k + 1] here.  *)
(***************************************************************************)
EXTENDS Integers, Sequences, FiniteSets, TLC

\* ---------------------------------------------------------------- bounds
MaxLat == 1          \* latitudes 0..MaxLat (metres north of the origin)
MaxLen == 4          \* points per segment in the scan specification
MaxClosure == 2      \* loop_closure_threshold_m in 0..MaxClosure
MaxMinLoop == 1      \* min_closed_loop_length_km in 0..MaxMinLoop
MaxMaxLoop == 3      \* max_closed_loop_length_km in 0..MaxMaxLoop
MaxSegs == 2         \* segments of the track given to extract_bad_segments
MaxCalls == 2        \* calls of extract_bad_segments on one TrackCutter
MaxOrdinal == 3      \* numbers 0..MaxOrdinal typed at the selection prompt
MaxPicks == 2        \* ordinals in a list handed to cut_segments directly

\* config.py, in metres
LOOP_CLOSURE_THRESHOLD_M == 25
MIN_CLOSED_LOOP_LENGTH_M == 50
MAX_CLOSED_LOOP_LENGTH_M == 1000

NoneLat == -1        \* latitude None of a corrupt point

\* ---------------------------------------------------------------- values
Lats == 0..MaxLat

Point(lat, ele) == [latitude |-> lat, longitude |-> 0, elevation |-> ele]

\* points of the detection specifications: elevation plays no part in the scan
FlatPoints == {Point(lat, 0) : lat \in Lats \cup {NoneLat}}

SeqsUpTo(S, n) == UNION {[1..k -> S] : k \in 0..n}

Abs(x) == IF x < 0 THEN -x ELSE x

Max2(a, b) == IF a >= b THEN a ELSE b
Min2(a, b) == IF a <= b THEN a ELSE b

\* ------------------------------------------------------------- GpxUtils
\* radians(None) raises TypeError
DistanceRaises(point1, point2) ==
    point1.latitude = NoneLat \/ point2.latitude = NoneLat

\* haversine distance of two points of one meridian, in metres
distance_between_points(point1, point2) ==
    Abs(point2.latitude - point1.latitude)

\* the slice points[i:j], without the closing point
create_gpx_open(i, j, points) == SubSeq(points, i + 1, j)

\* points[i:j + 1]
create_gpx(i, j, points) == SubSeq(points, i + 1, j + 1)

\* ------------------------------------- TrackCutter.process_segment_static
\* The arguments of one call: a = [segment_points, loop_closure_threshold_m,
\* min_closed_loop_length_km, max_closed_loop_length_km].
\* The frame of one call: f = [pc, i, j, total_distance, bad_gpx_list,
\* bad_ranges]; pc names the line the call is at.
ScanArgs(points, closure, minlen, maxlen) ==
    [segment_points |-> points,
     loop_closure_threshold_m |-> closure,
     min_closed_loop_length_km |-> minlen,
     max_closed_loop_length_km |-> maxlen]

\* lines 31-33
InitFrame ==
    [pc |-> "for_i", i |-> 0, j |-> 0, total_distance |-> 0,
     bad_gpx_list |-> <<>>, bad_ranges |-> <<>>]

\* the loop over i without its step to the next index
NextIStuck(f) == [f EXCEPT !.pc = "for_i"]

\* the next turn of `for i in range(n)`, after a break or the end of the j loop
NextI(f) == [f EXCEPT !.pc = "for_i", !.i = f.i + 1]

\* the next turn of `for j in range(i + 1, n)`
NextJ(f) == [f EXCEPT !.pc = "for_j", !.j = f.j + 1]

\* the cut-off with `>=` for `>`
ExceedsMaxOrEqual(total_distance, maxlen) == total_distance >= maxlen

\* line 42: total_distance > max_closed_loop_length_km
ExceedsMax(total_distance, maxlen) == total_distance > maxlen

\* the closure test with `<=` for `<` on the closing distance
ClosureTestLoose(f, a) ==
    /\ distance_between_points(a.segment_points[f.i + 1], a.segment_points[f.j + 1])
          <= a.loop_closure_threshold_m
    /\ f.total_distance > a.min_closed_loop_length_km

\* lines 45-47: the closure test
ClosureTest(f, a) ==
    /\ distance_between_points(a.segment_points[f.i + 1], a.segment_points[f.j + 1])
          < a.loop_closure_threshold_m
    /\ f.total_distance > a.min_closed_loop_length_km

\* the overlap test on the end index alone: j for i in max(i, r1)
OverlapsEndOnly(i, j, ranges) ==
    \E k \in 1..Len(ranges) : Max2(j, ranges[k][1]) <= Min2(j, ranges[k][2])

\* the overlap test left out
OverlapsNever(i, j, ranges) == FALSE

\* line 48: any(max(i, r1) <= min(j, r2) for r1, r2 in bad_ranges)
Overlaps(i, j, ranges) ==
    \E k \in 1..Len(ranges) : Max2(i, ranges[k][1]) <= Min2(j, ranges[k][2])

\* lines 35-36
ForI(f, a) ==
    IF f.i < Len(a.segment_points)
    THEN [f EXCEPT !.pc = "for_j", !.total_distance = 0, !.j = f.i + 1]
    ELSE [f EXCEPT !.pc = "return"]

\* `range(i + 1, n + 1)` for `range(i + 1, n)`: points[n] raises IndexError
ForJOffByOne(f, a) ==
    IF f.j < Len(a.segment_points)
    THEN [f EXCEPT !.pc = "accumulate"]
    ELSE IF f.j = Len(a.segment_points)
         THEN [f EXCEPT !.pc = "raised"]
         ELSE NextI(f)

\* line 38
ForJ(f, a) ==
    IF f.j < Len(a.segment_points)
    THEN [f EXCEPT !.pc = "accumulate"]
    ELSE NextI(f)

\* lines 39-40
Accumulate(f, a) ==
    IF DistanceRaises(a.segment_points[f.j], a.segment_points[f.j + 1])
    THEN [f EXCEPT !.pc = "raised"]
    ELSE [f EXCEPT !.pc = "check_max",
                   !.total_distance = f.total_distance +
                       distance_between_points(a.segment_points[f.j],
                                               a.segment_points[f.j + 1])]

\* the scan without the break of line 43
CheckMaxNoBreak(f, a) == [f EXCEPT !.pc = "closure"]

\* lines 42-43
CheckMax(f, a) ==
    IF ExceedsMax(f.total_distance, a.max_closed_loop_length_km)
    THEN NextI(f)
    ELSE [f EXCEPT !.pc = "closure"]

\* lines 45-47
Closure(f, a) ==
    IF DistanceRaises(a.segment_points[f.i + 1], a.segment_points[f.j + 1])
    THEN [f EXCEPT !.pc = "raised"]
    ELSE IF ClosureTest(f, a)
         THEN [f EXCEPT !.pc = "overlap"]
         ELSE NextJ(f)

\* `break` for the `continue` of line 49
OverlapBreaks(f, a) ==
    IF Overlaps(f.i, f.j, f.bad_ranges)
    THEN NextI(f)
    ELSE [f EXCEPT !.pc = "record"]

\* lines 48-49
Overlap(f, a) ==
    IF Overlaps(f.i, f.j, f.bad_ranges)
    THEN NextJ(f)
    ELSE [f EXCEPT !.pc = "record"]

\* the record without the break of line 53
RecordNoBreak(f, a) ==
    NextJ([f EXCEPT
             !.bad_gpx_list = Append(f.bad_gpx_list, create_gpx(f.i, f.j, a.segment_points)),
             !.bad_ranges = Append(f.bad_ranges, <<f.i, f.j>>)])

\* lines 50-53
Record(f, a) ==
    NextI([f EXCEPT
             !.bad_gpx_list = Append(f.bad_gpx_list, create_gpx(f.i, f.j, a.segment_points)),
             !.bad_ranges = Append(f.bad_ranges, <<f.i, f.j>>)])

ScanEnded(f) == f.pc \in {"return", "raised"}

\* one step of the call
ScanStep(f, a) ==
    CASE f.pc = "for_i" -> ForI(f, a)
      [] f.pc = "for_j" -> ForJ(f, a)
      [] f.pc = "accumulate" -> Accumulate(f, a)
      [] f.pc = "check_max" -> CheckMax(f, a)
      [] f.pc = "closure" -> Closure(f, a)
      [] f.pc = "overlap" -> Overlap(f, a)
      [] f.pc = "record" -> Record(f, a)
      [] OTHER -> f

\* the call run to its end (line 55, or the exception that leaves it)
RECURSIVE RunScan(_, _)
RunScan(f, a) == IF ScanEnded(f) THEN f ELSE RunScan(ScanStep(f, a), a)

\* the whole call: the frame it ends in
process_segment_static(points, closure, minlen, maxlen) ==
    RunScan(InitFrame, ScanArgs(points, closure, minlen, maxlen))

\* ------------------------------------------------------------------ state
VARIABLES
    loop_closure_threshold_m,      \* the three thresholds of the run
    min_closed_loop_length_km,
    max_closed_loop_length_km,
    segment_points,                \* the segment one scan call works on
    frame,                         \* the frame of that call
    gpx,                           \* the track: the point lists of its segments
    pc,                            \* where extract_bad_segments is
    futures,                       \* one future per segment: [state, result]
    finished,                      \* finished futures as_completed has yet to yield
    order,                         \* the futures as_completed has yielded, in order
    bad_gpx_list,                  \* locals of extract_bad_segments
    bad_ranges,
    cut_ranges,                    \* self.cut_ranges
    ret,                           \* the list the latest call returned
    prev_ret,                      \* the list the call before it returned
    calls,                         \* calls of extract_bad_segments begun
    mpc,                           \* where main is, from line 78 on
    bad_segments,                  \* main: the candidates detection returned
    mode,                          \* IO.input_bad_segments: 1 or 2, 0 before
    selected_segments,             \* IO._input_bad_segments: the set typed so far
    bad_segments_input,            \* main: the ordinals given to cut_segments
    gpx_copy,                      \* the object copy.deepcopy(simplified_track)
    bad_points,                    \* cut_segments: the exclusion set
    cutting_track                  \* main: the object cut_segments returned

scanVars == <<segment_points, frame>>
thrVars == <<loop_closure_threshold_m, min_closed_loop_length_km,
             max_closed_loop_length_km>>
poolVars == <<futures, finished>>
extractVars == <<gpx, pc, order, bad_gpx_list, bad_ranges, cut_ranges, ret,
                 prev_ret, calls>>
cutVars == <<mpc, bad_segments, mode, selected_segments, bad_segments_input,
             gpx_copy, bad_points, cutting_track>>
vars == <<thrVars, scanVars, poolVars, extractVars, cutVars>>

Args == ScanArgs(segment_points, loop_closure_threshold_m,
                 min_closed_loop_length_km, max_closed_loop_length_km)

\* no call of extract_bad_segments has begun
ExtractIdle ==
    /\ pc = "idle"
    /\ futures = <<>>
    /\ finished = <<>>
    /\ order = <<>>
    /\ bad_gpx_list = <<>>
    /\ bad_ranges = <<>>
    /\ cut_ranges = <<>>
    /\ ret = <<>>
    /\ prev_ret = <<>>
    /\ calls = 0

\* main has not reached line 78
MainIdle ==
    /\ mpc = "detect"
    /\ bad_segments = <<>>
    /\ mode = 0
    /\ selected_segments = {}
    /\ bad_segments_input = <<>>
    /\ gpx_copy = <<>>
    /\ bad_points = {}
    /\ cutting_track = "None"

\* no call of process_segment_static in this process
ScanIdle ==
    /\ segment_points = <<>>
    /\ frame = InitFrame

\* --------------------------------------------- the scan of one segment
\* a segment of the meridian with the latitudes lats
Seg(lats) == [k \in 1..Len(lats) |-> Point(lats[k], 0)]

\* Longer segments the scan is also run on: two out-and-back loops with a
\* straight stretch between them, and the same two loops one right after the
\* other.
ScanShapes == {Seg(<<0, 1, 0, 2, 4, 5, 4>>), Seg(<<0, 1, 0, 3, 4, 3>>)}

InitScan ==
    /\ loop_closure_threshold_m \in 0..MaxClosure
    /\ min_closed_loop_length_km \in 0..MaxMinLoop
    /\ max_closed_loop_length_km \in 0..MaxMaxLoop
    /\ segment_points \in SeqsUpTo(FlatPoints, MaxLen) \cup ScanShapes
    /\ frame = InitFrame
    /\ ExtractIdle
    /\ MainIdle
    /\ gpx = <<>>

ScanAt(line, next_frame) ==
    /\ frame.pc = line
    /\ frame' = next_frame
    /\ UNCHANGED <<thrVars, segment_points, poolVars, extractVars, cutVars>>

ScanForI == ScanAt("for_i", ForI(frame, Args))
ScanForJ == ScanAt("for_j", ForJ(frame, Args))
ScanAccumulate == ScanAt("accumulate", Accumulate(frame, Args))
ScanCheckMax == ScanAt("check_max", CheckMax(frame, Args))
ScanClosure == ScanAt("closure", Closure(frame, Args))
ScanOverlap == ScanAt("overlap", Overlap(frame, Args))
ScanRecord == ScanAt("record", Record(frame, Args))

NextScan ==
    \/ ScanForI
    \/ ScanForJ
    \/ ScanAccumulate
    \/ ScanCheckMax
    \/ ScanClosure
    \/ ScanOverlap
    \/ ScanRecord

SpecScan == InitScan /\ [][NextScan]_vars

\* ------------------------------------ TrackCutter.extract_bad_segments
\* Segment shapes, one for each way a scan can end: no point, one point, one
\* corrupt point, a straight stretch, an out-and-back loop, the same loop
\* walked the other way, two loops, a corrupt point before any loop, a
\* corrupt point after a loop.
SegmentShapes ==
    {Seg(<<>>), Seg(<<0>>), Seg(<<NoneLat>>), Seg(<<0, 30, 60>>),
     Seg(<<0, 30, 0>>), Seg(<<30, 0, 30>>), Seg(<<0, 30, 0, 30, 0, 30>>),
     Seg(<<0, NoneLat, 0>>), Seg(<<0, 30, 0, NoneLat>>)}

Init ==
    /\ loop_closure_threshold_m = LOOP_CLOSURE_THRESHOLD_M
    /\ min_closed_loop_length_km = MIN_CLOSED_LOOP_LENGTH_M
    /\ max_closed_loop_length_km = MAX_CLOSED_LOOP_LENGTH_M
    /\ gpx \in SeqsUpTo(SegmentShapes, MaxSegs)
    /\ ExtractIdle
    /\ ScanIdle
    /\ MainIdle

PendingFuture == [state |-> "pending", result |-> InitFrame]

\* the lists of lines 81-82 kept from the call before
SubmitKeepsLists ==
    /\ pc \in {"idle", "done"}
    /\ calls < MaxCalls
    /\ calls' = calls + 1
    /\ futures' = [s \in 1..Len(gpx) |-> PendingFuture]
    /\ finished' = <<>>
    /\ order' = <<>>
    /\ pc' = "collect"
    /\ UNCHANGED <<thrVars, scanVars, cutVars, gpx, cut_ranges, ret, prev_ret,
                   bad_gpx_list, bad_ranges>>

\* lines 75-92: one future per segment, in segment order
Submit ==
    /\ pc \in {"idle", "done"}
    /\ calls < MaxCalls
    /\ calls' = calls + 1
    /\ futures' = [s \in 1..Len(gpx) |-> PendingFuture]
    /\ finished' = <<>>
    /\ order' = <<>>
    /\ bad_gpx_list' = <<>>
    /\ bad_ranges' = <<>>
    /\ pc' = "collect"
    /\ UNCHANGED <<thrVars, scanVars, cutVars, gpx, cut_ranges, ret, prev_ret>>

\* a worker process takes the task of segment s
TaskStart(s) ==
    /\ futures[s].state = "pending"
    /\ futures' = [futures EXCEPT ![s].state = "running"]
    /\ UNCHANGED <<thrVars, scanVars, cutVars, finished, extractVars>>

\* the worker ends the scan of segment s; the future holds what the call
\* returned or raised, and as_completed will yield it after the earlier ones
TaskFinish(s) ==
    /\ futures[s].state = "running"
    /\ futures' = [futures EXCEPT ![s] =
          [state |-> "finished",
           result |-> process_segment_static(gpx[s], loop_closure_threshold_m,
                          min_closed_loop_length_km, max_closed_loop_length_km)]]
    /\ finished' = Append(finished, s)
    /\ UNCHANGED <<thrVars, scanVars, cutVars, extractVars>>

\* the exception of the task swallowed: its partial lists are its result
ResultNeverRaises(future) == FALSE

\* lines 95-100: future.result() re-raises what the task raised
ResultRaises(future) == future.result.pc = "raised"

\* the lists of a task added last element first
CollectedReversed(lst, future, part) ==
    IF ResultRaises(future) THEN lst
    ELSE lst \o [k \in 1..Len(part) |-> part[Len(part) + 1 - k]]

\* lines 94-100: one turn of `for future in as_completed(futures)`
Collected(lst, future, part) ==
    IF ResultRaises(future) THEN lst ELSE lst \o part

\* as_completed yielding the same future again: the queue is not advanced
CollectSameAgain ==
    /\ pc = "collect"
    /\ finished # <<>>
    /\ Len(order) < Len(futures)
    /\ LET s == Head(finished) IN
         /\ bad_gpx_list' = Collected(bad_gpx_list, futures[s],
                                      futures[s].result.bad_gpx_list)
         /\ bad_ranges' = Collected(bad_ranges, futures[s],
                                    futures[s].result.bad_ranges)
         /\ order' = Append(order, s)
    /\ finished' = finished
    /\ UNCHANGED <<thrVars, scanVars, cutVars, futures, gpx, pc, cut_ranges, ret,
                   prev_ret, calls>>

Collect ==
    /\ pc = "collect"
    /\ finished # <<>>
    /\ LET s == Head(finished) IN
         /\ bad_gpx_list' = Collected(bad_gpx_list, futures[s],
                                      futures[s].result.bad_gpx_list)
         /\ bad_ranges' = Collected(bad_ranges, futures[s],
                                    futures[s].result.bad_ranges)
         /\ order' = Append(order, s)
    /\ finished' = Tail(finished)
    /\ UNCHANGED <<thrVars, scanVars, cutVars, futures, gpx, pc, cut_ranges, ret,
                   prev_ret, calls>>

\* lines 102-103, once as_completed has yielded every future
Return ==
    /\ pc = "collect"
    /\ Len(order) = Len(futures)
    /\ cut_ranges' = bad_ranges
    /\ ret' = bad_gpx_list
    /\ prev_ret' = ret
    /\ pc' = "done"
    /\ UNCHANGED <<thrVars, scanVars, cutVars, poolVars, gpx, order, bad_gpx_list,
                   bad_ranges, calls>>

Next ==
    \/ Submit
    \/ \E s \in 1..Len(futures) : TaskStart(s)
    \/ \E s \in 1..Len(futures) : TaskFinish(s)
    \/ Collect
    \/ Return

Spec == Init /\ [][Next]_vars

\* ------------------------------------------------ properties of a call
\* what the scan of segment s returns, and whether it raises instead
ScanOf(s) ==
    process_segment_static(gpx[s], loop_closure_threshold_m,
        min_closed_loop_length_km, max_closed_loop_length_km)

SegmentFails(s) == ScanOf(s).pc = "raised"

CandidatesOf(s) == IF SegmentFails(s) THEN <<>> ELSE ScanOf(s).bad_gpx_list

\* the candidate lists of the segments named by ord, one after the other
RECURSIVE ConcatCandidates(_)
ConcatCandidates(ord) ==
    IF ord = <<>> THEN <<>>
    ELSE CandidatesOf(Head(ord)) \o ConcatCandidates(Tail(ord))

SegmentOrder == [s \in 1..Len(gpx) |-> s]

\* C1: the list extract_bad_segments returns is the candidates of segment 1,
\* then those of segment 2, and so on, whatever order the tasks finished in.
C1_SegmentOrder ==
    pc = "done" => ret = ConcatCandidates(SegmentOrder)

\* C2: a second call on the same track and thresholds returns the same list,
\* in the same order, as the call before it.
C2_Deterministic ==
    (pc = "done" /\ calls >= 2) => ret = prev_ret

Degenerate(s) == Len(gpx[s]) <= 1

\* the yielded segments that have two points or more
RECURSIVE ProperOnly(_)
ProperOnly(ord) ==
    IF ord = <<>> THEN <<>>
    ELSE IF Degenerate(Head(ord)) THEN ProperOnly(Tail(ord))
         ELSE <<Head(ord)>> \o ProperOnly(Tail(ord))

\* C10: the scan of a segment with no point or one point returns without
\* raising and finds nothing, and the call returns exactly the candidates of
\* the other segments (the empty list for a track with no segment).
C10_DegenerateTolerated ==
    /\ \A s \in 1..Len(futures) :
          (futures[s].state = "finished" /\ Degenerate(s)) =>
              /\ futures[s].result.pc = "return"
              /\ futures[s].result.bad_gpx_list = <<>>
              /\ futures[s].result.bad_ranges = <<>>
    /\ pc = "done" => ret = ConcatCandidates(ProperOnly(order))
    /\ (pc = "done" /\ gpx = <<>>) => ret = <<>>

C10_Witness ==
    /\ pc = "done"
    /\ \E s \in 1..Len(gpx) : Degenerate(s)
    /\ ret # <<>>

\* ------------------------------------------------ properties of a scan
\* points[k] of the segment being scanned, k counted from 0
PointAt(k) == segment_points[k + 1]

\* the sum of the consecutive-point distances from index i to index j
RECURSIVE PathLength(_, _)
PathLength(i, j) ==
    IF j <= i THEN 0
    ELSE PathLength(i, j - 1) + distance_between_points(PointAt(j - 1), PointAt(j))

\* the pair (i, j) closes a loop the thresholds admit
ClosesLoop(i, j) ==
    /\ i < j
    /\ distance_between_points(PointAt(i), PointAt(j)) < loop_closure_threshold_m
    /\ PathLength(i, j) > min_closed_loop_length_km
    /\ \A m \in (i + 1)..j : PathLength(i, m) <= max_closed_loop_length_km

\* no two points of the segment are closer than the closure threshold
NoClosePair ==
    \A i, j \in 0..(Len(segment_points) - 1) :
        i < j =>
            \/ DistanceRaises(PointAt(i), PointAt(j))
            \/ distance_between_points(PointAt(i), PointAt(j)) >= loop_closure_threshold_m

\* C3: every recorded range (i, j) has i < j, its end points closer than the
\* closure threshold, and a path length above min and at most max at j and at
\* every index before j; the closure test is only reached with the running
\* sum, which is the path length from i to j, at most max; a segment with no
\* two points closer than the threshold gets no range.
C3_RangeValidity ==
    /\ \A k \in 1..Len(frame.bad_ranges) :
          ClosesLoop(frame.bad_ranges[k][1], frame.bad_ranges[k][2])
    /\ frame.pc \in {"closure", "overlap", "record"} =>
          /\ frame.total_distance = PathLength(frame.i, frame.j)
          /\ frame.total_distance <= max_closed_loop_length_km
    /\ NoClosePair => frame.bad_ranges = <<>>

C3_Witness ==
    /\ frame.pc = "return"
    /\ frame.bad_ranges # <<>>
    /\ \E i, j \in 0..(Len(segment_points) - 1) :
          /\ i < j
          /\ ~DistanceRaises(PointAt(i), PointAt(j))
          /\ distance_between_points(PointAt(i), PointAt(j)) < loop_closure_threshold_m
          /\ PathLength(i, j) > max_closed_loop_length_km

\* C4: at every step of the scan the recorded ranges are pairwise disjoint,
\* and each range starts after the end of every range recorded before it: no
\* closure that starts inside a recorded range is recorded.
C4_NoOverlap ==
    \A k, l \in 1..Len(frame.bad_ranges) :
        k < l =>
            /\ Max2(frame.bad_ranges[k][1], frame.bad_ranges[l][1])
                  > Min2(frame.bad_ranges[k][2], frame.bad_ranges[l][2])
            /\ frame.bad_ranges[l][1] > frame.bad_ranges[k][2]

\* the scan has ended, and a loop that starts inside a recorded range was left out
C4_Witness ==
    /\ frame.pc = "return"
    /\ \E k \in 1..Len(frame.bad_ranges) :
          \E i, j \in 0..(Len(segment_points) - 1) :
              /\ frame.bad_ranges[k][1] < i
              /\ i <= frame.bad_ranges[k][2]
              /\ ClosesLoop(i, j)

\* ------------------------------------------- main, from line 78 to line 94
SegE(lats, eles) == [k \in 1..Len(lats) |-> Point(lats[k], eles[k])]

\* Segment shapes of the track main cuts: a loop, a second loop elsewhere, a
\* straight stretch through a point of the first loop, a loop followed by a
\* point above its start and a point further on, two loops, a single point,
\* a loop the track comes back to the start of later on.
CutShapes ==
    {Seg(<<0, 30, 0>>), Seg(<<60, 90, 60>>), Seg(<<0, 60, 120>>),
     SegE(<<0, 30, 0, 0, 60>>, <<0, 0, 0, 1, 0>>),
     Seg(<<0, 30, 0, 60, 90, 60>>), Seg(<<30>>), Seg(<<0, 30, 0, 60, 0>>)}

InitCut ==
    /\ loop_closure_threshold_m = LOOP_CLOSURE_THRESHOLD_M
    /\ min_closed_loop_length_km = MIN_CLOSED_LOOP_LENGTH_M
    /\ max_closed_loop_length_km = MAX_CLOSED_LOOP_LENGTH_M
    /\ gpx \in SeqsUpTo(CutShapes, MaxSegs)
    /\ ExtractIdle
    /\ ScanIdle
    /\ MainIdle

\* the orders in which as_completed can yield n futures
Orders(n) == {o \in [1..n -> 1..n] : \A a, b \in 1..n : o[a] = o[b] => a = b}

\* the ranges of the segments named by ord, one after the other
RECURSIVE ConcatRanges(_)
ConcatRanges(ord) ==
    IF ord = <<>> THEN <<>>
    ELSE (IF SegmentFails(Head(ord)) THEN <<>> ELSE ScanOf(Head(ord)).bad_ranges)
            \o ConcatRanges(Tail(ord))

\* main line 78: one whole call of extract_bad_segments, its tasks finishing
\* in the order ord
Detect ==
    /\ mpc = "detect"
    /\ \E ord \in Orders(Len(gpx)) :
         /\ order' = ord
         /\ bad_gpx_list' = ConcatCandidates(ord)
         /\ bad_ranges' = ConcatRanges(ord)
    /\ futures' = [s \in 1..Len(gpx) |-> [state |-> "finished", result |-> ScanOf(s)]]
    /\ cut_ranges' = bad_ranges'
    /\ ret' = bad_gpx_list'
    /\ bad_segments' = bad_gpx_list'
    /\ pc' = "done"
    /\ calls' = 1
    /\ mpc' = "mode"
    /\ UNCHANGED <<thrVars, scanVars, gpx, finished, prev_ret, mode,
                   selected_segments, bad_segments_input, gpx_copy, bad_points,
                   cutting_track>>

\* ------------------------------------------------------------------- IO
\* io.py lines 151-167: the mode typed, 1 or 2
InputMode(m) ==
    /\ mpc = "mode"
    /\ mode' = m
    /\ mpc' = "select"
    /\ UNCHANGED <<thrVars, scanVars, poolVars, extractVars, bad_segments,
                   selected_segments, bad_segments_input, gpx_copy, bad_points,
                   cutting_track>>

\* io.py lines 129-136: one part of a line, "num" or "-num"; abs(int(part))
TypedNumber(num, minus) ==
    /\ mpc = "select"
    /\ selected_segments' =
          IF minus THEN selected_segments \ {num} ELSE selected_segments \cup {num}
    /\ UNCHANGED <<thrVars, scanVars, poolVars, extractVars, mpc, bad_segments,
                   mode, bad_segments_input, gpx_copy, bad_points, cutting_track>>

\* io.py lines 124-125: "c"
TypedClear ==
    /\ mpc = "select"
    /\ selected_segments' = {}
    /\ UNCHANGED <<thrVars, scanVars, poolVars, extractVars, mpc, bad_segments,
                   mode, bad_segments_input, gpx_copy, bad_points, cutting_track>>

\* sorted(selected_segments)
RECURSIVE Sorted(_)
Sorted(S) ==
    IF S = {} THEN <<>>
    ELSE LET m == CHOOSE x \in S : \A y \in S : x <= y
         IN <<m>> \o Sorted(S \ {m})

\* range(len_bad_segments): 0, 1, ..., len_bad_segments - 1
Range(n) == [k \in 1..n |-> k - 1]

\* io.py line 103: [seg for seg in range(len_bad_segments) if seg not in selected]
AllExcept(len_bad_segments, selected) ==
    SelectSeq(Range(len_bad_segments), LAMBDA seg : seg \notin selected)

\* io.py lines 99-103
SelectedOrdinals(m, len_bad_segments, selected) ==
    IF m = 1 THEN Sorted(selected) ELSE AllExcept(len_bad_segments, selected)

\* io.py lines 122-123 and 139, then lines 99-103: "q"
TypedQuit ==
    /\ mpc = "select"
    /\ bad_segments_input' = SelectedOrdinals(mode, Len(bad_segments), selected_segments)
    /\ mpc' = "cut"
    /\ UNCHANGED <<thrVars, scanVars, poolVars, extractVars, bad_segments, mode,
                   selected_segments, gpx_copy, bad_points, cutting_track>>

\* ------------------------------------------------ TrackCutter.cut_segments
\* the elevation left out of the identity of a point
TripleNoElevation(point) == <<point.latitude, point.longitude, 0>>

\* line 131: (point.latitude, point.longitude, point.elevation)
Triple(point) == <<point.latitude, point.longitude, point.elevation>>

\* line 124: i = index - 1
OrdinalIndex(index) == index - 1

\* `0 < i` for `0 <= i`: ordinal 1 is skipped too
InRangeSkipsFirst(i, n) == 0 < i /\ i < n

\* line 125: 0 <= i < len(bad_segments)
InRange(i, n) == 0 <= i /\ i < n

\* line 126: bad_segments[i]; a negative i counts from the end of the list
ListItem(lst, i) == IF i < 0 THEN lst[Len(lst) + i + 1] ELSE lst[i + 1]

\* the exclusion set left empty
BadPointsNone(candidates, indexes) == {}

\* lines 121-131: the triples of the points of the candidates the ordinals name
BadPoints(candidates, indexes) ==
    UNION {
        IF InRange(OrdinalIndex(indexes[k]), Len(candidates))
        THEN LET bad_gpx == ListItem(candidates, OrdinalIndex(indexes[k]))
             IN {Triple(bad_gpx[m]) : m \in 1..Len(bad_gpx)}
        ELSE {}
      : k \in 1..Len(indexes)}

\* the filtered list never assigned to segment.points
FilterPointsKeepsAll(points, bad) == points

\* lines 136-139: the points of one segment that are kept
FilterPoints(points, bad) ==
    SelectSeq(points, LAMBDA pt : Triple(pt) \notin bad)

\* `bad_points = set()` inside the loop over the ordinals: only the points of
\* the last ordinal are left in it
cut_segments_last_only(track, candidates, indexes) ==
    [s \in 1..Len(track) |->
        FilterPoints(track[s],
            BadPoints(candidates,
                IF indexes = <<>> THEN <<>> ELSE <<indexes[Len(indexes)]>>))]

\* lines 105-141: the whole call, as the point lists the track ends with
cut_segments(track, candidates, indexes) ==
    [s \in 1..Len(track) |-> FilterPoints(track[s], BadPoints(candidates, indexes))]

\* main line 91 and lines 121-131: the argument is a deep copy of the track
CutCollect ==
    /\ mpc = "cut"
    /\ gpx_copy' = gpx
    /\ bad_points' = BadPoints(bad_segments, bad_segments_input)
    /\ mpc' = "filter"
    /\ UNCHANGED <<thrVars, scanVars, poolVars, extractVars, bad_segments, mode,
                   selected_segments, bad_segments_input, cutting_track>>

\* cut_segments called on the simplified track itself, with no deepcopy: the
\* track filtered in place is the one detection scanned
CutFilterInOriginal ==
    /\ mpc = "filter"
    /\ gpx' = [s \in 1..Len(gpx) |-> FilterPoints(gpx[s], bad_points)]
    /\ gpx_copy' = gpx'
    /\ mpc' = "return"
    /\ UNCHANGED <<thrVars, scanVars, poolVars, pc, order, bad_gpx_list, bad_ranges,
                   cut_ranges, ret, prev_ret, calls, bad_segments, mode,
                   selected_segments, bad_segments_input, bad_points, cutting_track>>

\* only the first segment of the argument is filtered
CutFilterFirstOnly ==
    /\ mpc = "filter"
    /\ gpx_copy' = [s \in 1..Len(gpx_copy) |->
                      IF s = 1 THEN FilterPoints(gpx_copy[s], bad_points)
                      ELSE gpx_copy[s]]
    /\ mpc' = "return"
    /\ UNCHANGED <<thrVars, scanVars, poolVars, extractVars, bad_segments, mode,
                   selected_segments, bad_segments_input, bad_points, cutting_track>>

\* lines 134-139: segment.points of every segment of the argument is replaced
CutFilter ==
    /\ mpc = "filter"
    /\ gpx_copy' = [s \in 1..Len(gpx_copy) |-> FilterPoints(gpx_copy[s], bad_points)]
    /\ mpc' = "return"
    /\ UNCHANGED <<thrVars, scanVars, poolVars, extractVars, bad_segments, mode,
                   selected_segments, bad_segments_input, bad_points, cutting_track>>

\* line 141 and main line 90: the argument itself is what is returned
CutReturn ==
    /\ mpc = "return"
    /\ cutting_track' = "gpx_copy"
    /\ mpc' = "done"
    /\ UNCHANGED <<thrVars, scanVars, poolVars, extractVars, bad_segments, mode,
                   selected_segments, bad_segments_input, gpx_copy, bad_points>>

NextCut ==
    \/ Detect
    \/ \E m \in {1, 2} : InputMode(m)
    \/ \E num \in 0..MaxOrdinal : \E minus \in BOOLEAN : TypedNumber(num, minus)
    \/ TypedClear
    \/ TypedQuit
    \/ CutCollect
    \/ CutFilter
    \/ CutReturn

SpecCut == InitCut /\ [][NextCut]_vars

\* --------------------------------------- properties of selection and cut
CandidateCount == Len(bad_segments)

\* the ordinals given to cut_segments, as a set
GivenOrdinals == {bad_segments_input[k] : k \in 1..Len(bad_segments_input)}

\* cut_segments has built its exclusion set
Excising == mpc \in {"filter", "return", "done"}

\* the coordinate triples of the points of the candidates with ordinals in K
TriplesOf(K) ==
    UNION {{<<bad_segments[k][m].latitude, bad_segments[k][m].longitude,
              bad_segments[k][m].elevation>> : m \in 1..Len(bad_segments[k])}
           : k \in K \cap (1..CandidateCount)}

\* the points of a list whose triple is not in excl, in their order
RECURSIVE KeepPoints(_, _)
KeepPoints(points, excl) ==
    IF points = <<>> THEN <<>>
    ELSE LET pt == Head(points)
         IN (IF <<pt.latitude, pt.longitude, pt.elevation>> \in excl
             THEN <<>> ELSE <<pt>>) \o KeepPoints(Tail(points), excl)

\* the track with the candidates of the ordinals in K cut out
TrackWithout(K) == [s \in 1..Len(gpx) |-> KeepPoints(gpx[s], TriplesOf(K))]

\* C6: in mode 2 the ordinals given to cut_segments are the 1-based
\* complement {1..n} \ S of the typed set S, and the filtered track is the
\* one mode 1 gives for that complement.
C6_Complement ==
    /\ (mode = 2 /\ mpc \in {"cut", "filter", "return", "done"}) =>
          GivenOrdinals = (1..CandidateCount) \ selected_segments
    /\ (mode = 2 /\ mpc = "done") =>
          gpx_copy = TrackWithout((1..CandidateCount) \ selected_segments)

\* C7 as claimed: after the call the track passed to cut_segments holds in
\* every segment the point sequence it held before, and the track returned
\* is another object.
C7_InputUnchanged ==
    mpc = "done" => (gpx_copy = gpx /\ cutting_track # "gpx_copy")

\* C7 as amended: cut_segments returns the very object passed to it, filtered
\* in place: it keeps its segments, and a segment of it holds the point
\* sequence it held before only if none of its points has the triple of a
\* point of a selected candidate.
C7_FilteredInPlace ==
    mpc = "done" =>
        /\ cutting_track = "gpx_copy"
        /\ Len(gpx_copy) = Len(gpx)
        /\ \A s \in 1..Len(gpx) :
              gpx_copy[s] = gpx[s] <=>
                  \A m \in 1..Len(gpx[s]) :
                      <<gpx[s][m].latitude, gpx[s][m].longitude, gpx[s][m].elevation>>
                          \notin TriplesOf(GivenOrdinals)

C7_Witness ==
    /\ mpc = "done"
    /\ cutting_track = "gpx_copy"
    /\ gpx_copy # gpx

\* C8: the track returned has the segments of the input, in their order, an
\* emptied segment included, and each holds, in their order, the points whose
\* triple is not that of a point of a candidate C[k-1], k among the ordinals.
C8_Excision ==
    mpc = "done" =>
        /\ Len(gpx_copy) = Len(gpx)
        /\ gpx_copy = TrackWithout(GivenOrdinals)

C8_Witness ==
    /\ mpc = "done"
    /\ \E s, t \in 1..Len(gpx) :
          /\ gpx[s] # <<>> /\ gpx_copy[s] = <<>>
          /\ gpx_copy[t] # <<>> /\ gpx_copy[t] # gpx[t]

\* C9 as claimed: once an ordinal outside 1..n has been typed, no excision is
\* performed.
C9_OutOfRangeRejected ==
    (\E x \in selected_segments : x \notin 1..CandidateCount) => ~Excising

\* C9 as amended: an ordinal outside 1..n is ignored without an error: it
\* adds no point to the exclusion set, the call returns, and what is cut out
\* is the candidates of the ordinals in range (nothing, if there is none).
C9_OutOfRangeIgnored ==
    /\ Excising => bad_points = TriplesOf(GivenOrdinals \cap (1..CandidateCount))
    /\ mpc = "done" =>
          /\ cutting_track = "gpx_copy"
          /\ (GivenOrdinals \cap (1..CandidateCount) = {}) => gpx_copy = gpx

C9_Witness ==
    /\ mpc = "done"
    /\ mode = 1
    /\ \E x \in GivenOrdinals : x \notin 1..CandidateCount
    /\ \E x \in GivenOrdinals : x \in 1..CandidateCount
    /\ gpx_copy # gpx

\* the segment scanned has a point with no latitude
HasCorruptPoint ==
    \E k \in 1..Len(segment_points) : segment_points[k].latitude = NoneLat

\* C11: with max below min the scan records no range and no candidate for
\* any segment, at any step, and it raises nothing on account of the
\* thresholds: it ends by returning unless a point has no latitude.
C11_MaxBelowMin ==
    max_closed_loop_length_km < min_closed_loop_length_km =>
        /\ frame.bad_ranges = <<>>
        /\ frame.bad_gpx_list = <<>>
        /\ frame.pc = "raised" => HasCorruptPoint

\* the scan has returned with max below min on a segment where a pair of
\* points closes a path longer than min
C11_Witness ==
    /\ max_closed_loop_length_km < min_closed_loop_length_km
    /\ frame.pc = "return"
    /\ \E i, j \in 0..(Len(segment_points) - 1) :
          /\ i < j
          /\ distance_between_points(PointAt(i), PointAt(j)) < loop_closure_threshold_m
          /\ PathLength(i, j) > min_closed_loop_length_km

\* the number of points of a track, all segments together
RECURSIVE PointCount(_)
PointCount(track) ==
    IF track = <<>> THEN 0 ELSE Len(Head(track)) + PointCount(Tail(track))

\* the ordinals given to cut_segments that name a candidate
ChosenCandidates == GivenOrdinals \cap (1..CandidateCount)

\* C12: the track cut_segments returns never has more points than the track
\* it was given, and it has fewer as soon as one detected candidate is cut
\* out: fewer by at least the length of each candidate cut out, so the count
\* never stays equal then.
C12_CountDecreases ==
    mpc = "done" =>
        /\ PointCount(gpx_copy) <= PointCount(gpx)
        /\ \A k \in ChosenCandidates :
              /\ Len(bad_segments[k]) >= 2
              /\ PointCount(gpx_copy) <= PointCount(gpx) - Len(bad_segments[k])
        /\ ChosenCandidates # {} => PointCount(gpx_copy) < PointCount(gpx)

\* some but not all of the candidates were cut out and points are left
C12_Witness ==
    /\ mpc = "done"
    /\ ChosenCandidates # {}
    /\ ChosenCandidates # 1..CandidateCount
    /\ PointCount(gpx_copy) > 0
    /\ PointCount(gpx_copy) < PointCount(gpx)

\* ------------------------------------------- the tasks of a batch, by step
\* One call of extract_bad_segments with the scan of every task taken line
\* by line, so that the tasks of the pool interleave; futures[s].result is
\* the frame of the running call until the call ends.  Segment shapes: one
\* point, a corrupt point, an out-and-back loop.
BatchShapes == {Seg(<<0>>), Seg(<<NoneLat, 0>>), Seg(<<0, 30, 0>>)}

InitBatch ==
    /\ loop_closure_threshold_m = LOOP_CLOSURE_THRESHOLD_M
    /\ min_closed_loop_length_km = MIN_CLOSED_LOOP_LENGTH_M
    /\ max_closed_loop_length_km = MAX_CLOSED_LOOP_LENGTH_M
    /\ gpx \in SeqsUpTo(BatchShapes, MaxSegs)
    /\ ExtractIdle
    /\ ScanIdle
    /\ MainIdle

\* lines 75-92, the one call of the batch
SubmitBatch == pc = "idle" /\ Submit

\* the tasks submitted with min and max in each other's place
TaskArgsSwapped(s) ==
    ScanArgs(gpx[s], loop_closure_threshold_m,
             max_closed_loop_length_km, min_closed_loop_length_km)

\* lines 86-92: the arguments the task of segment s is submitted with
TaskArgs(s) ==
    ScanArgs(gpx[s], loop_closure_threshold_m,
             min_closed_loop_length_km, max_closed_loop_length_km)

\* the worker of segment s runs one line of the scan, on its own frame
TaskStep(s) ==
    /\ futures[s].state = "running"
    /\ ~ScanEnded(futures[s].result)
    /\ futures' = [futures EXCEPT ![s].result = ScanStep(@, TaskArgs(s))]
    /\ UNCHANGED <<thrVars, scanVars, cutVars, finished, extractVars>>

\* the call of segment s has returned or raised: the future resolves, and
\* as_completed will yield it after the earlier ones
TaskEnd(s) ==
    /\ futures[s].state = "running"
    /\ ScanEnded(futures[s].result)
    /\ futures' = [futures EXCEPT ![s].state = "finished"]
    /\ finished' = Append(finished, s)
    /\ UNCHANGED <<thrVars, scanVars, cutVars, extractVars>>

NextBatch ==
    \/ SubmitBatch
    \/ \E s \in 1..Len(futures) : TaskStart(s)
    \/ \E s \in 1..Len(futures) : TaskStep(s)
    \/ \E s \in 1..Len(futures) : TaskEnd(s)
    \/ Collect
    \/ Return

\* the task of segment s, if the batch has one
TaskOf(s) ==
    /\ s <= Len(futures)
    /\ TaskStart(s) \/ TaskStep(s) \/ TaskEnd(s)

\* Every worker process of the pool is scheduled, and the thread in the
\* `with` block goes on whenever as_completed has a future to yield.
SpecBatch ==
    /\ InitBatch
    /\ [][NextBatch]_vars
    /\ \A s \in 1..MaxSegs : WF_vars(TaskOf(s))
    /\ WF_vars(Collect)
    /\ WF_vars(Return)

\* C13: in a submitted batch the loop indices of every scan stay within the
\* length of its segment, every task that runs ends (by returning or by
\* raising) whatever the other tasks do, and the call goes on to return its
\* list.
C13_BatchCompletes ==
    /\ [](\A s \in 1..Len(futures) :
            /\ futures[s].result.i <= Len(gpx[s])
            /\ futures[s].result.j <= Len(gpx[s]))
    /\ \A s \in 1..MaxSegs :
          (s <= Len(futures) /\ futures[s].state = "running")
              ~> (s <= Len(futures) /\ futures[s].state = "finished")
    /\ (pc = "collect") ~> (pc = "done")

\* the call has returned candidates from a batch one task of which raised
C13_Witness ==
    /\ pc = "done"
    /\ ret # <<>>
    /\ \E s, t \in 1..Len(futures) :
          /\ futures[s].result.pc = "raised"
          /\ futures[t].result.pc = "return"
          /\ futures[t].result.bad_gpx_list # <<>>

\* C14: neither aggregation list of extract_bad_segments is extended in a
\* step taken while a task of the batch is still pending or running.
C14_AfterAllResolved ==
    [][(Len(bad_gpx_list') > Len(bad_gpx_list) \/ Len(bad_ranges') > Len(bad_ranges))
          => \A s \in 1..Len(futures) : futures[s].state = "finished"]_vars

\* C15: a task works on its own frame and on the points of its own segment
\* only.  A step that changes the future of segment s leaves the track, the
\* futures of the other segments, the lists of the orchestrator and
\* cut_ranges as they were; and whatever the other tasks have done, the frame
\* of the task is on the way the call takes when run alone on its segment
\* with the three thresholds, so what it ends with is what that call returns
\* or raises.
C15_TaskPure ==
    /\ [](\A s \in 1..Len(futures) :
            /\ RunScan(futures[s].result, ScanArgs(gpx[s], loop_closure_threshold_m,
                   min_closed_loop_length_km, max_closed_loop_length_km)) = ScanOf(s)
            /\ futures[s].state = "finished" => futures[s].result = ScanOf(s))
    /\ [][\A s \in 1..Len(futures) :
            futures'[s] # futures[s] =>
                /\ gpx' = gpx
                /\ cut_ranges' = cut_ranges
                /\ bad_gpx_list' = bad_gpx_list
                /\ bad_ranges' = bad_ranges
                /\ ret' = ret
                /\ \A t \in 1..Len(futures) : t # s => futures'[t] = futures[t]]_vars

\* two tasks are in the middle of their scans at once, on different segments
C15_Witness ==
    \E s, t \in 1..Len(futures) :
        /\ s # t
        /\ gpx[s] # gpx[t]
        /\ futures[s].state = "running"
        /\ futures[t].state = "running"
        /\ futures[s].result.pc = "closure"
        /\ futures[t].result.pc = "accumulate"

\* the lists (bad_gpx_list or bad_ranges, as field says) returned by the
\* tasks of the segments named by ord, one after the other; a task that
\* raised returned none
RECURSIVE Blocks(_, _)
Blocks(ord, field) ==
    IF ord = <<>> THEN <<>>
    ELSE (IF futures[Head(ord)].result.pc = "raised" THEN <<>>
          ELSE futures[Head(ord)].result[field]) \o Blocks(Tail(ord), field)

\* C16: the ranges a scan holds for its segment have strictly ascending start
\* indices, there is one candidate for each range and the k-th candidate is
\* the points of the k-th range; extract_bad_segments adds the lists of a task
\* as one block, so the candidates and the ranges of one segment keep their
\* order in what it builds and returns.
C16_DiscoveryOrder ==
    /\ \A s \in 1..Len(futures) :
          LET r == futures[s].result IN
            /\ Len(r.bad_gpx_list) = Len(r.bad_ranges)
            /\ \A k \in 1..Len(r.bad_ranges) :
                  r.bad_gpx_list[k] =
                      [m \in 1..(r.bad_ranges[k][2] - r.bad_ranges[k][1] + 1) |->
                          gpx[s][r.bad_ranges[k][1] + m]]
            /\ \A k, l \in 1..Len(r.bad_ranges) :
                  k < l => r.bad_ranges[k][1] < r.bad_ranges[l][1]
    /\ pc = "collect" =>
          /\ bad_gpx_list = Blocks(order, "bad_gpx_list")
          /\ bad_ranges = Blocks(order, "bad_ranges")
    /\ pc = "done" =>
          /\ ret = Blocks(order, "bad_gpx_list")
          /\ cut_ranges = Blocks(order, "bad_ranges")

\* the call has returned the two candidates of one segment after the
\* candidate of a segment that comes after it in the track
C16_Witness ==
    /\ pc = "done"
    /\ Len(order) = 2
    /\ order[1] > order[2]
    /\ Len(futures[order[2]].result.bad_ranges) = 2
    /\ futures[order[2]].result.pc = "return"
    /\ Len(ret) = 3

\* the closure test at the pair (i, j): the closing distance is below the
\* threshold and the length accumulated from i to j is above min
TestHolds(i, j) ==
    /\ distance_between_points(PointAt(i), PointAt(j)) < loop_closure_threshold_m
    /\ PathLength(i, j) > min_closed_loop_length_km

\* (i, j) index-overlaps one of the first n recorded ranges
OverlapsAccepted(i, j, n) ==
    \E k \in 1..n :
        Max2(i, frame.bad_ranges[k][1]) <= Min2(j, frame.bad_ranges[k][2])

\* C17: no two recorded ranges start at the same index; the end of a recorded
\* range is the smallest j above its start at which the closure test holds
\* for a pair that overlaps no range accepted before it; and once a range is
\* recorded the loop over i is past its start, so nothing more is recorded
\* for that start.
C17_FirstClosure ==
    /\ \A k, l \in 1..Len(frame.bad_ranges) :
          k # l => frame.bad_ranges[k][1] # frame.bad_ranges[l][1]
    /\ \A k \in 1..Len(frame.bad_ranges) :
          LET i == frame.bad_ranges[k][1]
              j == frame.bad_ranges[k][2]
          IN /\ i < j
             /\ TestHolds(i, j)
             /\ ~OverlapsAccepted(i, j, k - 1)
             /\ \A m \in (i + 1)..(j - 1) :
                   ~(TestHolds(i, m) /\ ~OverlapsAccepted(i, m, k - 1))
             /\ i < frame.i

\* the scan has returned a range (i, j) although a later index also closes
\* a loop from i within max
C17_Witness ==
    /\ frame.pc = "return"
    /\ \E k \in 1..Len(frame.bad_ranges) :
          \E m \in 0..(Len(segment_points) - 1) :
              /\ m > frame.bad_ranges[k][2]
              /\ ClosesLoop(frame.bad_ranges[k][1], m)

\* the pairs of indices of the segment that close a loop the thresholds admit
ClosingPairs ==
    {p \in (0..(Len(segment_points) - 1)) \X (0..(Len(segment_points) - 1)) :
        ClosesLoop(p[1], p[2])}

\* the recorded ranges, as a set
RecordedRanges == {frame.bad_ranges[k] : k \in 1..Len(frame.bad_ranges)}

\* C18: when the scan has returned, every start index i that lies after the
\* end of every range recorded for a start before i, and from which some j
\* closes a loop with the length from i never above max on the way, has a
\* recorded range.  So if no two closing pairs of the segment index-overlap,
\* the recorded ranges are exactly the closing pairs, by ascending start: two
\* for two disjoint loops, one spanning the segment when (0, n-1) is the only
\* closing pair.
C18_Complete ==
    frame.pc = "return" =>
        /\ \A i \in 0..(Len(segment_points) - 1) :
              (/\ \A k \in 1..Len(frame.bad_ranges) :
                     frame.bad_ranges[k][1] < i => frame.bad_ranges[k][2] < i
               /\ \E j \in 0..(Len(segment_points) - 1) : ClosesLoop(i, j))
              => \E k \in 1..Len(frame.bad_ranges) : frame.bad_ranges[k][1] = i
        /\ (\A p, q \in ClosingPairs :
               p # q => Max2(p[1], q[1]) > Min2(p[2], q[2]))
              => /\ RecordedRanges = ClosingPairs
                 /\ Len(frame.bad_ranges) = Cardinality(ClosingPairs)
                 /\ \A k, l \in 1..Len(frame.bad_ranges) :
                       k < l => frame.bad_ranges[k][1] < frame.bad_ranges[l][1]
        /\ ClosingPairs = {<<0, Len(segment_points) - 1>>}
              => frame.bad_ranges = <<<<0, Len(segment_points) - 1>>>>

\* the scan has returned the two loops of a segment whose only closing pairs
\* they are, with a stretch of the segment between them
C18_Witness ==
    /\ frame.pc = "return"
    /\ Len(frame.bad_ranges) = 2
    /\ ClosingPairs = {frame.bad_ranges[1], frame.bad_ranges[2]}
    /\ frame.bad_ranges[2][1] > frame.bad_ranges[1][2] + 1
    /\ Len(frame.bad_gpx_list) = 2

\* the scan has returned the one loop of a segment that spans it
C18_WitnessFull ==
    /\ frame.pc = "return"
    /\ Len(segment_points) >= 3
    /\ ClosingPairs = {<<0, Len(segment_points) - 1>>}

\* the scan is at line 48 with a closure (i, j) that index-overlaps a
\* recorded range
ClosureDiscarded ==
    /\ frame.pc = "overlap"
    /\ \E k \in 1..Len(frame.bad_ranges) :
          Max2(frame.i, frame.bad_ranges[k][1]) <= Min2(frame.j, frame.bad_ranges[k][2])

\* C19: the step the scan takes from a closure that index-overlaps a
\* recorded range records nothing and goes to the next j of the same i with
\* the accumulated length as it was; from there the loop over j of that i
\* goes on: it ends only at the end of the segment or at the cut-off on max
\* (or on a point with no latitude).
C19_DiscardContinues ==
    /\ [][ClosureDiscarded =>
            /\ frame'.pc = "for_j"
            /\ frame'.i = frame.i
            /\ frame'.j = frame.j + 1
            /\ frame'.total_distance = frame.total_distance
            /\ frame'.bad_ranges = frame.bad_ranges
            /\ frame'.bad_gpx_list = frame.bad_gpx_list]_vars
    /\ [][(frame'.i # frame.i /\ Len(frame'.bad_ranges) = Len(frame.bad_ranges)) =>
            \/ frame.j = Len(segment_points)
            \/ /\ frame.pc = "check_max"
               /\ frame.total_distance > max_closed_loop_length_km]_vars

\* after a discarded closure at (i, j0) the scan is at the closure test of a
\* later j of the same i, with the length accumulated from i
C19_Witness ==
    /\ frame.pc = "closure"
    /\ frame.total_distance = PathLength(frame.i, frame.j)
    /\ \E j0 \in (frame.i + 1)..(frame.j - 1) :
          /\ TestHolds(frame.i, j0)
          /\ OverlapsAccepted(frame.i, j0, Len(frame.bad_ranges))

\* C20: there is one candidate for each recorded range, and the candidate of
\* the range (i, j) is the j - i + 1 points (two at least) the segment holds
\* at the indices i..j, in that order and with their values; no step of the
\* scan, the building of a candidate included, changes the point list of the
\* segment.
C20_CandidatePoints ==
    /\ [](/\ Len(frame.bad_gpx_list) = Len(frame.bad_ranges)
          /\ \A k \in 1..Len(frame.bad_ranges) :
                LET i == frame.bad_ranges[k][1]
                    j == frame.bad_ranges[k][2]
                    candidate == frame.bad_gpx_list[k]
                IN /\ Len(candidate) = j - i + 1
                   /\ Len(candidate) >= 2
                   /\ \A m \in 0..(j - i) : candidate[m + 1] = PointAt(i + m))
    /\ [][segment_points' = segment_points]_vars

\* the scan has returned a candidate of three points or more that starts
\* after the first point of its segment and is not the whole of it
C20_Witness ==
    /\ frame.pc = "return"
    /\ \E k \in 1..Len(frame.bad_ranges) :
          /\ frame.bad_ranges[k][1] > 0
          /\ Len(frame.bad_gpx_list[k]) >= 3
          /\ Len(frame.bad_gpx_list[k]) < Len(segment_points)

\* where the candidates of the segments named by ord come from: for each, the
\* segment and the range <<s, i, j>>, in the order of the returned list
RECURSIVE Origins(_)
Origins(ord) ==
    IF ord = <<>> THEN <<>>
    ELSE LET s == Head(ord)
             r == futures[s].result
         IN (IF r.pc = "raised" THEN <<>>
             ELSE [k \in 1..Len(r.bad_ranges) |->
                      <<s, r.bad_ranges[k][1], r.bad_ranges[k][2]>>])
            \o Origins(Tail(ord))

\* the triple of the m-th point of segment s of a track
TripleAt(track, s, m) ==
    <<track[s][m].latitude, track[s][m].longitude, track[s][m].elevation>>

\* the points of segment s of the track whose triple is that of a point of a
\* candidate cut out
Matching(s) ==
    {m \in 1..Len(gpx[s]) : TripleAt(gpx, s, m) \in TriplesOf(ChosenCandidates)}

\* C21: the track cut_segments returns holds no point with the triple of a
\* point of a selected candidate, in any segment: each segment has lost
\* exactly its points with such a triple, wherever they lie.
C21_RemovedByValue ==
    mpc = "done" =>
        \A s \in 1..Len(gpx) :
            /\ \A n \in 1..Len(gpx_copy[s]) :
                  TripleAt(gpx_copy, s, n) \notin TriplesOf(ChosenCandidates)
            /\ Len(gpx_copy[s]) = Len(gpx[s]) - Cardinality(Matching(s))

\* one candidate was selected, and with it went a point of its own segment
\* outside its range, and the points of a candidate of another segment that
\* was not selected
C21_Witness ==
    /\ mpc = "done"
    /\ \E k \in ChosenCandidates :
          LET o == Origins(order)[k] IN
            /\ ChosenCandidates = {k}
            /\ \E m \in Matching(o[1]) : m - 1 > o[3]
            /\ \E l \in 1..CandidateCount :
                  LET q == Origins(order)[l] IN
                    /\ l # k
                    /\ q[1] # o[1]
                    /\ \A m \in (q[2] + 1)..(q[3] + 1) : m \in Matching(q[1])
                    /\ gpx_copy[q[1]] = <<>>

\* C22: whenever a call of extract_bad_segments has returned, the first or a
\* later one, the returned list and cut_ranges have the same length, which
\* is the number of candidates the segments of the track that did not fail
\* have (so nothing is left from a call before), and the k-th range (i, j)
\* of cut_ranges is a range of a segment that did not fail, the k-th
\* candidate being the j - i + 1 points of that segment at i..j.
C22_FreshPerRun ==
    pc = "done" =>
        /\ Len(ret) = Len(cut_ranges)
        /\ Len(ret) = Len(ConcatCandidates(SegmentOrder))
        /\ calls >= 2 => Len(ret) = Len(prev_ret)
        /\ \A k \in 1..Len(cut_ranges) :
              LET i == cut_ranges[k][1]
                  j == cut_ranges[k][2]
              IN /\ Len(ret[k]) = j - i + 1
                 /\ \E s \in 1..Len(gpx) :
                       /\ ~SegmentFails(s)
                       /\ \E l \in 1..Len(ScanOf(s).bad_ranges) :
                             ScanOf(s).bad_ranges[l] = <<i, j>>
                       /\ ret[k] = [m \in 1..(j - i + 1) |-> gpx[s][i + m]]

\* a second call has returned candidates for a track one segment of which
\* failed after a range was recorded for it
C22_Witness ==
    /\ pc = "done"
    /\ calls >= 2
    /\ ret # <<>>
    /\ \E s \in 1..Len(gpx) :
          /\ SegmentFails(s)
          /\ ScanOf(s).bad_ranges # <<>>

\* the scan with `break` in the place of the `continue` of line 49
ScanStepBreak(f, a) ==
    IF f.pc = "overlap" THEN OverlapBreaks(f, a) ELSE ScanStep(f, a)

RECURSIVE RunScanBreak(_, _)
RunScanBreak(f, a) ==
    IF ScanEnded(f) THEN f ELSE RunScanBreak(ScanStepBreak(f, a), a)

\* C23: at the overlap test of a closure (i, j) the outcome is the same for
\* every later end index of the same start; a range is recorded for i only
\* if no closure of i was met and discarded before; and the scan run with
\* `break` in the place of `continue` ends the same way on every segment
\* and threshold triple: both raise, or both return the same ranges and
\* candidates.
C23_ContinueIsBreak ==
    /\ frame.pc = "overlap" =>
          \A j2 \in (frame.j + 1)..(Len(segment_points) - 1) :
              Overlaps(frame.i, j2, frame.bad_ranges)
                  <=> Overlaps(frame.i, frame.j, frame.bad_ranges)
    /\ frame.pc = "record" =>
          \A j0 \in (frame.i + 1)..(frame.j - 1) :
              ~(TestHolds(frame.i, j0) /\ Overlaps(frame.i, j0, frame.bad_ranges))
    /\ frame = InitFrame =>
          LET c == RunScan(frame, Args)
              b == RunScanBreak(frame, Args)
          IN /\ c.pc = b.pc
             /\ c.pc = "return" =>
                   /\ c.bad_ranges = b.bad_ranges
                   /\ c.bad_gpx_list = b.bad_gpx_list

\* a second closure of the same start is discarded for overlap: the
\* `continue` took the scan from the first one to it
C23_Witness ==
    /\ ClosureDiscarded
    /\ \E j0 \in (frame.i + 1)..(frame.j - 1) :
          /\ TestHolds(frame.i, j0)
          /\ Overlaps(frame.i, j0, frame.bad_ranges)

\* how many times x occurs in the list lst
Occurrences(lst, x) == Cardinality({k \in 1..Len(lst) : lst[k] = x})

\* the two lists hold the same elements the same number of times
SameMultiset(lst1, lst2) ==
    /\ Len(lst1) = Len(lst2)
    /\ \A k \in 1..Len(lst1) : Occurrences(lst1, lst1[k]) = Occurrences(lst2, lst1[k])

\* C24: whatever order the tasks completed in, the returned list holds the
\* candidates of the segments that did not fail, each as many times as the
\* scans found it, and so the same multiset as the call before; it is made
\* of one block for each segment, the blocks in the order the futures were
\* yielded, which is a permutation of the segments.
C24_SameMultiset ==
    pc = "done" =>
        /\ SameMultiset(ret, ConcatCandidates(SegmentOrder))
        /\ calls >= 2 => SameMultiset(ret, prev_ret)
        /\ Len(order) = Len(gpx)
        /\ \A s \in 1..Len(gpx) : \E k \in 1..Len(order) : order[k] = s
        /\ ret = ConcatCandidates(order)

\* a second call has returned the blocks of two segments the other way
\* round than the call before
C24_Witness ==
    /\ pc = "done"
    /\ calls >= 2
    /\ ret # prev_ret
    /\ Len(ret) >= 3
    /\ order[1] > order[2]

\* the lists of ordinals cut_segments is tried with, in any order and with
\* repetitions, ordinals that name no candidate included
PickLists == SeqsUpTo(0..MaxOrdinal, MaxPicks)

\* the ordinals of a list, as a set
PickSet(indexes) == {indexes[k] : k \in 1..Len(indexes)}

\* C25: with the candidates of a detection, cut_segments gives for a list of
\* ordinals the track it gives for the same ordinals sorted and without
\* repetitions; applied again to what it gave, with the same candidates and
\* list, it changes nothing; with the empty list it keeps every point.  The
\* call main makes is one of these: what it leaves is what the whole call
\* gives, and cutting that again changes nothing.
C25_Idempotent ==
    /\ mpc = "mode" =>
          /\ cut_segments(gpx, bad_segments, <<>>) = gpx
          /\ \A indexes \in PickLists :
                LET once == cut_segments(gpx, bad_segments, indexes) IN
                  /\ once = cut_segments(gpx, bad_segments, Sorted(PickSet(indexes)))
                  /\ cut_segments(once, bad_segments, indexes) = once
    /\ mpc = "done" =>
          /\ gpx_copy = cut_segments(gpx, bad_segments, bad_segments_input)
          /\ cut_segments(gpx_copy, bad_segments, bad_segments_input) = gpx_copy

\* the detection found two candidates of different points, so that the order
\* and the repetition of the ordinals 1 and 2 could matter
C25_Witness ==
    /\ mpc = "mode"
    /\ CandidateCount >= 2
    /\ bad_segments[1] # bad_segments[2]
    /\ cut_segments(gpx, bad_segments, <<2, 1>>) # cut_segments(gpx, bad_segments, <<2>>)
    /\ cut_segments(gpx, bad_segments, <<2, 1>>) # cut_segments(gpx, bad_segments, <<1>>)

\* the points of segment s of a track that do not have the triple of a point
\* of a candidate handed to cut_segments for cutting
PointsKept(track, s) ==
    SelectSeq(track[s],
        LAMBDA pt : <<pt.latitude, pt.longitude, pt.elevation>>
                        \notin TriplesOf(ChosenCandidates))

\* C26: what cut_segments is given in main is a copy that holds the points of
\* the simplified track; from the detection on, no step changes the
\* simplified track or the point list of a candidate; and when the call has
\* returned, the copy holds, segment by segment, the points of the simplified
\* track but those with the triple of a point of a selected candidate.
C26_CutsDeepCopy ==
    /\ [](mpc = "filter" => gpx_copy = gpx)
    /\ [][mpc # "detect" => (gpx' = gpx /\ bad_segments' = bad_segments /\ ret' = ret)]_vars
    /\ [](mpc = "done" =>
            /\ bad_segments = ret
            /\ Len(gpx_copy) = Len(gpx)
            /\ \A s \in 1..Len(gpx) : gpx_copy[s] = PointsKept(gpx, s))

\* the call has returned a track without the points of a selected candidate,
\* and the simplified track still holds every one of them
C26_Witness ==
    /\ mpc = "done"
    /\ gpx_copy # gpx
    /\ \E k \in ChosenCandidates :
          \A m \in 1..Len(bad_segments[k]) :
              /\ \E s \in 1..Len(gpx) : \E n \in 1..Len(gpx[s]) :
                    gpx[s][n] = bad_segments[k][m]
              /\ \A s \in 1..Len(gpx_copy) : \A n \in 1..Len(gpx_copy[s]) :
                    gpx_copy[s][n] # bad_segments[k][m]

====
